---- MODULE Spec2Model ----
(***************************************************************************)
(* Model of the live interview session coordinator of HireSpec:            *)
(*   src/routes/proctoring.js  - proctoring event pipeline (HTTP)          *)
(*   src/routes/resume.js      - live-interview sessions (HTTP, 2nd half)  *)
(*   src/socket/handlers.js    - rooms, relay, collaboration, pairing      *)
(* Fields that no handler ever reads back (names, e-mails, free-text       *)
(* details) are left out of the records; timestamps are kept where a       *)
(* handler or a property depends on them.                                  *)
(***************************************************************************)
EXTENDS Integers, Sequences, FiniteSets, TLC

\* ---------------------------------------------------------------- bounds
MaxLog == 6          \* events in one log, score specification
MaxEvents == 2       \* events over all logs, pipeline specification
MaxPending == 1      \* verify-identity requests suspended on the verifier
MaxRecords == 1      \* verification records over all interviews

MaxParticipants == 3 \* joins of one live-interview session
MaxStored == 1       \* code snapshots and proctoring events of one session
MaxTime == 1         \* readings of the clock
MaxTimers == 1       \* teardown timers pending for one room
MaxStrokes == 2      \* strokes on one whiteboard
MaxConcurrent == 2   \* verify-identity requests of one interview in flight together

\* ---------------------------------------------------------------- values
Undefined == "undefined"   \* a field the request does not carry
Null == "null"
NoEntry == "absent"        \* Map.get() of a key that was never set

PIds == {"p1", "p2"}                     \* interview ids of the pipeline
PKeys == PIds \cup {"p3", Undefined}     \* keys the Maps can hold
Severities == {"low", "medium", "high", "critical", "info"}
EventTypes == {"tab_switch"}
UserIds == {"u1"}
Images == {"img"}
VerifierOutcomes == {"throw", "verified", "not_verified", "no_verdict"}

SIds == {"s1", "s2"}                     \* uuids of live-interview sessions
AccessCodes == {"AB12CD", "ZZ99ZZ"}      \* generateAccessCode() results
Roles == {"recruiter", "candidate", "interviewer"}

Endpoints == {"e1", "e2", "e3"}          \* socket ids
LiveIds == {"r1", "r2"}                  \* sessionId of live-interview rooms
Dashboard == "proctor-dashboard"
InterviewIds == {"i1", "e1", Dashboard}  \* interviewId a client may send
PairingCodes == {"AB12CD"}
SocketRoles == {"candidate", "recruiter"}
CodeTexts == {"a", "b"}
Languages == {"javascript", "python"}
Strokes == {"k1", "k2"}

\* `live-${sessionId}`
LiveRoom(sessionId) == "live-" \o sessionId

\* names of socket.io rooms: every socket's own id, the live rooms, the
\* dashboard group and whatever join-interview was sent
RoomNames == Endpoints \cup {LiveRoom(r) : r \in LiveIds} \cup {Dashboard}
             \cup InterviewIds

VARIABLES
    conn,                   \* socket.io: "new", "connected" or "gone" per socket
    sioRooms,               \* socket.io adapter: room name -> sockets in it
    liveInterviewRooms,     \* handlers.js:14   sessionId -> room
    secondaryCameraMappings,\* handlers.js:8    code -> mapping
    proctorDashboardSockets,\* handlers.js:11
    pendingTeardowns,       \* setTimeout() calls of end-live-interview not yet fired
    sent,                   \* what the last handler emitted, in order
    joined,                 \* history: joined and not since left or disconnected
    tornDown,               \* history: rooms a teardown timer has deleted
    lastUpdate,             \* history: last live-code-update a room took
    liveInterviewSessions,  \* resume.js:443    sessionId -> session
    now,                    \* what new Date() returns
    statusHist,             \* history: the values session.status has taken
    proctoringEvents,       \* proctoring.js:6   interviewId -> event array
    activeSessions,         \* proctoring.js:9   interviewId -> session
    identityVerifications,  \* proctoring.js:12  interviewId -> records
    verifyInFlight,         \* verify-identity calls awaiting fetch()
    res,                    \* the HTTP response of the last request
    last,                   \* the request or message handled last
    prevScore               \* history: the score answers per id since the last append

pvars == <<proctoringEvents, activeSessions, identityVerifications,
           verifyInFlight, prevScore>>
svars == <<liveInterviewSessions, now, statusHist>>
kvars == <<conn, sioRooms, liveInterviewRooms, secondaryCameraMappings,
           proctorDashboardSockets, pendingTeardowns, sent, joined, tornDown,
           lastUpdate>>
notProctor == <<svars, kvars>>
notSession == <<pvars, kvars>>
notSocket == <<pvars, svars, res>>
vars == <<proctoringEvents, activeSessions, identityVerifications,
          verifyInFlight, res, last, prevScore, svars, kvars>>

\* ---------------------------------------------------------------- helpers
NoResponse == [status |-> 0, body |-> Null]   \* the handler has not answered
NoAnswer == [body |-> Null, asked |-> 0]      \* no score query since the last append
NoUpdate == [seen |-> FALSE]                  \* the room took no live-code-update
EmptyMap == [k \in {} |-> NoEntry]           \* new Map()

Max(a, b) == IF a >= b THEN a ELSE b

\* Map.get(k) || []
EventsOf(id) ==
    IF id \in DOMAIN proctoringEvents THEN proctoringEvents[id] ELSE <<>>

\* variant: the array is written back holding the new value alone
MapPushReplaces(map, k, v) == (k :> <<v>>) @@ map

\* variant: the value is put in front of the array
MapUnshift(map, k, v) ==
    IF k \in DOMAIN map THEN [map EXCEPT ![k] = <<v>> \o @]
    ELSE (k :> <<v>>) @@ map

\* if (!map.has(k)) map.set(k, []); map.get(k).push(v)
MapPush(map, k, v) ==
    IF k \in DOMAIN map THEN [map EXCEPT ![k] = Append(@, v)]
    ELSE (k :> <<v>>) @@ map

\* variant: the critical case deducts what the high case deducts
DeductionCriticalAsHigh(severity) ==
    CASE severity = "low" -> 2
      [] severity = "medium" -> 5
      [] severity = "high" -> 10
      [] severity = "critical" -> 10
      [] OTHER -> 0

\* switch (event.severity) of GET /:interviewId/score
Deduction(severity) ==
    CASE severity = "low" -> 2
      [] severity = "medium" -> 5
      [] severity = "high" -> 10
      [] severity = "critical" -> 20
      [] OTHER -> 0

RECURSIVE ScoreFold(_, _, _)
ScoreFold(events, i, score) ==
    IF i > Len(events) THEN score
    ELSE ScoreFold(events, i + 1, score - Deduction(events[i].severity))

CountType(events, t) ==
    Cardinality({i \in 1..Len(events) : events[i].eventType = t})

Breakdown(events) ==
    [t \in {events[i].eventType : i \in 1..Len(events)} |-> CountType(events, t)]

\* variant: totalEvents taken from the session's counter when there is one
TotalEventsFromCounter(id) ==
    IF id \in DOMAIN activeSessions THEN activeSessions[id].eventCount
    ELSE Len(EventsOf(id))

\* events.length
TotalEventsRead(id) == Len(EventsOf(id))

\* res.json({score: Math.max(0, score), totalEvents, breakdown})
ScoreResponse(id) ==
    [score |-> Max(0, ScoreFold(EventsOf(id), 1, 100)),
     totalEvents |-> TotalEventsRead(id),
     breakdown |-> Breakdown(EventsOf(id))]

\* ---------------------------------------------------------------- proctoring.js
\* POST /event
PostEvent(id, eventType, severity) ==
    LET event == [eventType |-> eventType, severity |-> severity] IN
    /\ UNCHANGED notProctor
    /\ proctoringEvents' = MapPush(proctoringEvents, id, event)
    /\ activeSessions' =
         IF id \in DOMAIN activeSessions
         THEN [activeSessions EXCEPT ![id].eventCount = @ + 1]
         ELSE activeSessions
    /\ res' = [status |-> 200, body |-> [success |-> TRUE, event |-> event]]
    /\ last' = [op |-> "POST /event", id |-> id, eventType |-> eventType,
                severity |-> severity]
    /\ prevScore' = [prevScore EXCEPT ![id] = NoAnswer]
    /\ UNCHANGED <<identityVerifications, verifyInFlight>>

\* GET /:interviewId
GetEvents(id) ==
    /\ UNCHANGED notProctor
    /\ res' = [status |-> 200, body |-> EventsOf(id)]
    /\ last' = [op |-> "GET /:interviewId", id |-> id]
    /\ UNCHANGED pvars

\* GET /:interviewId/score
GetScore(id) ==
    /\ UNCHANGED notProctor
    /\ res' = [status |-> 200, body |-> ScoreResponse(id)]
    /\ last' = [op |-> "GET /:interviewId/score", id |-> id]
    /\ prevScore' = [prevScore EXCEPT ![id] =
                        [body |-> ScoreResponse(id),
                         asked |-> IF @.asked = 0 THEN 1 ELSE 2]]
    /\ UNCHANGED <<proctoringEvents, activeSessions, identityVerifications,
                   verifyInFlight>>

NewSession == [status |-> "active", eventCount |-> 0, endTime |-> Null]

\* variant: registering a session also starts a fresh event log
PostSessionFreshLog(id) ==
    /\ UNCHANGED notProctor
    /\ activeSessions' = (id :> NewSession) @@ activeSessions
    /\ proctoringEvents' = (id :> <<>>) @@ proctoringEvents
    /\ res' = [status |-> 200, body |-> [success |-> TRUE]]
    /\ last' = [op |-> "POST /session", id |-> id]
    /\ UNCHANGED <<identityVerifications, verifyInFlight, prevScore>>

\* POST /session
PostSession(id) ==
    /\ UNCHANGED notProctor
    /\ activeSessions' = (id :> NewSession) @@ activeSessions
    /\ res' = [status |-> 200, body |-> [success |-> TRUE]]
    /\ last' = [op |-> "POST /session", id |-> id]
    /\ UNCHANGED <<proctoringEvents, identityVerifications, verifyInFlight,
                   prevScore>>

\* variant: ending a session also discards its event log
DeleteSessionDropsLog(id) ==
    /\ UNCHANGED notProctor
    /\ activeSessions' =
         IF id \in DOMAIN activeSessions
         THEN [activeSessions EXCEPT ![id].status = "completed",
                                     ![id].endTime = "set"]
         ELSE activeSessions
    /\ proctoringEvents' =
         IF id \in DOMAIN proctoringEvents
         THEN [proctoringEvents EXCEPT ![id] = <<>>]
         ELSE proctoringEvents
    /\ res' = [status |-> 200, body |-> [success |-> TRUE]]
    /\ last' = [op |-> "DELETE /session", id |-> id]
    /\ UNCHANGED <<identityVerifications, verifyInFlight, prevScore>>

\* DELETE /session/:interviewId
DeleteSession(id) ==
    /\ UNCHANGED notProctor
    /\ activeSessions' =
         IF id \in DOMAIN activeSessions
         THEN [activeSessions EXCEPT ![id].status = "completed",
                                     ![id].endTime = "set"]
         ELSE activeSessions
    /\ res' = [status |-> 200, body |-> [success |-> TRUE]]
    /\ last' = [op |-> "DELETE /session", id |-> id]
    /\ UNCHANGED <<proctoringEvents, identityVerifications, verifyInFlight,
                   prevScore>>

\* POST /verify-identity, up to the await of fetch()
VerifyIdentityStart(id, userId, image) ==
    /\ UNCHANGED notProctor
    /\ IF userId = Undefined \/ image = Undefined
       THEN /\ res' = [status |-> 400,
                       body |-> [success |-> FALSE, verified |-> FALSE]]
            /\ last' = [op |-> "POST /verify-identity", id |-> id,
                        userId |-> userId, image |-> image]
            /\ UNCHANGED pvars
       ELSE /\ verifyInFlight' =
                 Append(verifyInFlight, [interviewId |-> id, userId |-> userId])
            /\ res' = NoResponse
            /\ last' = [op |-> "POST /verify-identity (await)", id |-> id,
                        userId |-> userId, image |-> image]
            /\ UNCHANGED <<proctoringEvents, activeSessions,
                           identityVerifications, prevScore>>

RemoveAt(s, k) == [j \in 1..(Len(s) - 1) |-> IF j < k THEN s[j] ELSE s[j + 1]]

\* result.verified of the verifier's JSON answer
VerifiedField(outcome) ==
    CASE outcome = "verified" -> "true"
      [] outcome = "not_verified" -> "false"
      [] OTHER -> Undefined

\* !result.verified
Falsy(v) == v = "false" \/ v = Undefined

\* POST /verify-identity, from the resumption after fetch() to the response
VerifyIdentityComplete(k, outcome) ==
    LET req == verifyInFlight[k]
        id == req.interviewId
        verified == VerifiedField(outcome)
        record == [userId |-> req.userId, verified |-> verified]
        mismatch == [eventType |-> "identity_mismatch", severity |-> "critical"]
    IN
    /\ UNCHANGED notProctor
    /\ verifyInFlight' = RemoveAt(verifyInFlight, k)
    /\ last' = [op |-> "POST /verify-identity (resume)", id |-> id,
                outcome |-> outcome]
    /\ IF outcome = "throw"
       THEN /\ res' = [status |-> 503,
                       body |-> [success |-> FALSE, verified |-> FALSE]]
            /\ UNCHANGED <<proctoringEvents, activeSessions,
                           identityVerifications, prevScore>>
       ELSE /\ identityVerifications' = MapPush(identityVerifications, id, record)
            /\ IF Falsy(verified)
               THEN /\ proctoringEvents' = MapPush(proctoringEvents, id, mismatch)
                    /\ prevScore' = [prevScore EXCEPT ![id] = NoAnswer]
               ELSE UNCHANGED <<proctoringEvents, prevScore>>
            /\ res' = [status |-> 200,
                       body |-> [success |-> TRUE, verified |-> verified]]
            /\ UNCHANGED activeSessions

\* switch (event.severity) of GET /dashboard/sessions
DashboardDeduction(severity) ==
    CASE severity = "low" -> 2
      [] severity = "medium" -> 5
      [] severity = "high" -> 10
      [] severity = "critical" -> 20
      [] OTHER -> 0

RECURSIVE DashboardScoreFold(_, _, _)
DashboardScoreFold(events, i, score) ==
    IF i > Len(events) THEN score
    ELSE DashboardScoreFold(events, i + 1,
                            score - DashboardDeduction(events[i].severity))

\* events.filter(e => e.severity === severity).length
Violations(events) ==
    [sev \in {"low", "medium", "high", "critical"} |->
        Cardinality({i \in 1..Len(events) : events[i].severity = sev})]

\* variant: the five oldest events
RecentEventsOldest(events) == SubSeq(events, 1, IF Len(events) < 5 THEN Len(events) ELSE 5)

\* events.slice(-5)
RecentEvents(events) == SubSeq(events, Max(1, Len(events) - 4), Len(events))

\* the object the map() callback of GET /dashboard/sessions returns
DashboardEntry(id) ==
    LET session == activeSessions[id]
        events == EventsOf(id)
    IN [status |-> session.status,
        eventCount |-> session.eventCount,
        integrityScore |-> Max(0, DashboardScoreFold(events, 1, 100)),
        violations |-> Violations(events),
        totalEvents |-> Len(events),
        recentEvents |-> RecentEvents(events)]

\* GET /dashboard/sessions; the answer is an array with one entry per active
\* session, written here as a function of the session's key
GetDashboardSessions ==
    LET active == {id \in DOMAIN activeSessions :
                      activeSessions[id].status = "active"}
    IN
    /\ UNCHANGED notProctor
    /\ res' = [status |-> 200, body |-> [id \in active |-> DashboardEntry(id)]]
    /\ last' = [op |-> "GET /dashboard/sessions"]
    /\ UNCHANGED pvars

\* GET /dashboard/:interviewId
GetDashboardSession(id) ==
    /\ UNCHANGED notProctor
    /\ res' = IF id \notin DOMAIN activeSessions
              THEN [status |-> 404, body |-> [error |-> "Session not found"]]
              ELSE [status |-> 200,
                    body |-> [session |-> activeSessions[id],
                              events |-> EventsOf(id),
                              eventCount |-> Len(EventsOf(id))]]
    /\ last' = [op |-> "GET /dashboard/:interviewId", id |-> id]
    /\ UNCHANGED pvars

\* ---------------------------------------------------------------- resume.js (live interview)
\* session object of POST /create
CreatedSession(accessCode) ==
    [accessCode |-> accessCode, status |-> "scheduled", participants |-> <<>>,
     startedAt |-> Null, endedAt |-> Null, codeSnapshots |-> <<>>,
     chatHistory |-> <<>>, proctoringEvents |-> <<>>, feedback |-> Null]

\* POST /create: uuidv4() gives an id no session has
CreateSession(id, accessCode) ==
    /\ id \notin DOMAIN liveInterviewSessions
    /\ liveInterviewSessions' = (id :> CreatedSession(accessCode)) @@ liveInterviewSessions
    /\ statusHist' = (id :> <<"scheduled">>) @@ statusHist
    /\ res' = [status |-> 200, body |-> [id |-> id, accessCode |-> accessCode]]
    /\ last' = [op |-> "POST /create", id |-> id]
    /\ UNCHANGED <<notSession, now>>

NotFound(op, id) ==
    /\ res' = [status |-> 404, body |-> [error |-> "Session not found"]]
    /\ last' = [op |-> op, id |-> id]
    /\ UNCHANGED <<notSession, svars>>

\* session.participants.some(p => p.role === role)
HasRole(participants, role) ==
    \E i \in 1..Len(participants) : participants[i].role = role

\* variant: the interview is started whenever both roles are present
StartsInterviewAnyStatus(status, participants) ==
    /\ HasRole(participants, "recruiter")
    /\ HasRole(participants, "candidate")

\* hasRecruiter && hasCandidate && session.status !== 'in-progress'
StartsInterview(status, participants) ==
    /\ HasRole(participants, "recruiter")
    /\ HasRole(participants, "candidate")
    /\ status # "in-progress"

\* variant: every code is taken for the access code
InvalidAccessCodeNever(session, code) == FALSE

\* session.accessCode !== code
InvalidAccessCode(session, code) == session.accessCode # code

\* POST /join/:sessionId
JoinSession(id, role, code) ==
    IF id \notin DOMAIN liveInterviewSessions THEN NotFound("POST /join", id)
    ELSE LET session == liveInterviewSessions[id] IN
         IF InvalidAccessCode(session, code)
         THEN /\ res' = [status |-> 403, body |-> [error |-> "Invalid access code"]]
              /\ last' = [op |-> "POST /join", id |-> id, code |-> code]
              /\ UNCHANGED <<notSession, svars>>
         ELSE LET participants == Append(session.participants,
                                         [role |-> role, joinedAt |-> now])
                  waited == IF session.status = "scheduled" THEN "waiting"
                            ELSE session.status
                  starts == StartsInterview(waited, participants)
                  status == IF starts THEN "in-progress" ELSE waited
                  hist1 == IF waited # session.status
                           THEN Append(statusHist[id], waited) ELSE statusHist[id]
                  hist2 == IF starts THEN Append(hist1, "in-progress") ELSE hist1
              IN /\ liveInterviewSessions' =
                      [liveInterviewSessions EXCEPT ![id] =
                          [session EXCEPT !.participants = participants,
                                          !.status = status,
                                          !.startedAt = IF starts THEN now ELSE @]]
                 /\ statusHist' = [statusHist EXCEPT ![id] = hist2]
                 /\ res' = [status |-> 200,
                            body |-> [status |-> status, participants |-> participants]]
                 /\ last' = [op |-> "POST /join", id |-> id, code |-> code]
                 /\ UNCHANGED <<notSession, now>>

\* POST /end/:sessionId
EndSession(id, feedback) ==
    IF id \notin DOMAIN liveInterviewSessions THEN NotFound("POST /end", id)
    ELSE /\ liveInterviewSessions' =
              [liveInterviewSessions EXCEPT ![id].status = "completed",
                                            ![id].endedAt = now,
                                            ![id].feedback = [feedback |-> feedback]]
         /\ statusHist' = [statusHist EXCEPT ![id] =
                              IF liveInterviewSessions[id].status = "completed"
                              THEN @ ELSE Append(@, "completed")]
         /\ res' = [status |-> 200,
                    body |-> [codeSnapshots |-> Len(liveInterviewSessions[id].codeSnapshots),
                              proctoringEvents |-> Len(liveInterviewSessions[id].proctoringEvents)]]
         /\ last' = [op |-> "POST /end", id |-> id]
         /\ UNCHANGED <<notSession, now>>

\* POST /snapshot/:sessionId
SaveSnapshot(id, code) ==
    IF id \notin DOMAIN liveInterviewSessions THEN NotFound("POST /snapshot", id)
    ELSE /\ liveInterviewSessions' =
              [liveInterviewSessions EXCEPT ![id].codeSnapshots =
                  Append(@, [code |-> code])]
         /\ res' = [status |-> 200, body |-> [success |-> TRUE]]
         /\ last' = [op |-> "POST /snapshot", id |-> id]
         /\ UNCHANGED <<notSession, now, statusHist>>

\* POST /proctoring-event/:sessionId
SaveProctoringEvent(id, event) ==
    IF id \notin DOMAIN liveInterviewSessions THEN NotFound("POST /proctoring-event", id)
    ELSE /\ liveInterviewSessions' =
              [liveInterviewSessions EXCEPT ![id].proctoringEvents =
                  Append(@, [event |-> event])]
         /\ res' = [status |-> 200, body |-> [success |-> TRUE]]
         /\ last' = [op |-> "POST /proctoring-event", id |-> id]
         /\ UNCHANGED <<notSession, now, statusHist>>

\* the clock advances between two requests
Tick ==
    /\ now' = now + 1
    /\ UNCHANGED <<notSession, liveInterviewSessions, statusHist, res, last>>

\* ---------------------------------------------------------------- socket.io
\* the sockets in a room; a name no socket joined is an empty room
Members(name) == IF name \in DOMAIN sioRooms THEN sioRooms[name] ELSE {}

\* io.to(room).emit(event, payload)
IoTo(room, event, payload) ==
    [event |-> event, to |-> Members(room), payload |-> payload]

\* socket.to(room).emit(event, payload): the room without the sender
SocketTo(socket, room, event, payload) ==
    [event |-> event, to |-> Members(room) \ {socket}, payload |-> payload]

\* socket.emit(event, payload)
SocketEmit(socket, event, payload) ==
    [event |-> event, to |-> {socket}, payload |-> payload]

\* socket.join(room)
SioJoin(rooms, socket, room) == [rooms EXCEPT ![room] = @ \cup {socket}]

\* socket.leave(room)
SioLeave(rooms, socket, room) == [rooms EXCEPT ![room] = @ \ {socket}]

\* Map.delete(key)
MapDelete(map, key) == [k \in (DOMAIN map) \ {key} |-> map[k]]

\* Map.set(key, value)
MapSet(map, key, value) == (key :> value) @@ map

\* io.on('connection'): the socket is in the room named by its id
Connect(socket) ==
    /\ conn[socket] = "new"
    /\ conn' = [conn EXCEPT ![socket] = "connected"]
    /\ sioRooms' = SioJoin(sioRooms, socket, socket)
    /\ sent' = <<>>
    /\ last' = [op |-> "connection", by |-> socket]
    /\ UNCHANGED <<liveInterviewRooms, secondaryCameraMappings,
                   proctorDashboardSockets, pendingTeardowns, joined, tornDown,
                   lastUpdate, notSocket>>

\* ---------------------------------------------------------------- handlers.js
NewRoom ==
    [participants |-> EmptyMap,
     codeState |-> [code |-> "", language |-> "javascript",
                    cursorPositions |-> EmptyMap],
     screenShares |-> EmptyMap,
     whiteboard |-> <<>>,
     settings |-> [enableChat |-> TRUE, enableScreenShare |-> TRUE,
                   enableCodeExecution |-> TRUE]]

\* cameras || { primary: true, secondary: false }, each flag written as the
\* entry camera-status-update stores for a camera
DefaultCameras ==
    [primary |-> [enabled |-> TRUE, streamId |-> Undefined],
     secondary |-> [enabled |-> FALSE, streamId |-> Undefined]]

\* the payload of 'room-state'
RoomState(room) ==
    [participants |-> room.participants,
     codeState |-> room.codeState,
     screenShares |-> room.screenShares,
     settings |-> room.settings]

\* socket.on('join-live-interview')
JoinLiveInterview(socket, sessionId, role) ==
    LET rooms0 == IF sessionId \in DOMAIN liveInterviewRooms
                  THEN liveInterviewRooms
                  ELSE MapSet(liveInterviewRooms, sessionId, NewRoom)
        room == [rooms0[sessionId] EXCEPT
                    !.participants =
                        MapSet(@, socket, [role |-> role,
                                           cameras |-> DefaultCameras])]
        sio == SioJoin(sioRooms, socket, LiveRoom(sessionId))
    IN
    /\ conn[socket] = "connected"
    /\ sioRooms' = sio
    /\ liveInterviewRooms' = [rooms0 EXCEPT ![sessionId] = room]
    /\ sent' = << [event |-> "participant-joined",
                    to |-> sio[LiveRoom(sessionId)] \ {socket},
                    payload |-> [socketId |-> socket, role |-> role]],
                  SocketEmit(socket, "room-state", RoomState(room)),
                  [event |-> "live-session-update", to |-> sio[Dashboard],
                   payload |-> [sessionId |-> sessionId,
                                type |-> "participant-joined", role |-> role]] >>
    /\ last' = [op |-> "join-live-interview", by |-> socket, room |-> sessionId]
    /\ joined' = [joined EXCEPT ![sessionId] = @ \cup {socket}]
    /\ UNCHANGED <<conn, secondaryCameraMappings, proctorDashboardSockets,
                   pendingTeardowns, tornDown, lastUpdate, notSocket>>

\* handleLiveInterviewLeave(sock, sessionId), called by 'leave-live-interview'
handleLiveInterviewLeave(socket, sessionId) ==
    /\ conn[socket] = "connected"
    /\ IF /\ sessionId \in DOMAIN liveInterviewRooms
          /\ socket \in DOMAIN liveInterviewRooms[sessionId].participants
       THEN LET participant == liveInterviewRooms[sessionId].participants[socket]
                sio == SioLeave(sioRooms, socket, LiveRoom(sessionId))
            IN /\ liveInterviewRooms' =
                    [liveInterviewRooms EXCEPT
                        ![sessionId].participants = MapDelete(@, socket),
                        ![sessionId].screenShares = MapDelete(@, socket)]
               /\ sioRooms' = sio
               /\ sent' = << [event |-> "participant-left",
                              to |-> sio[LiveRoom(sessionId)] \ {socket},
                              payload |-> [socketId |-> socket,
                                           role |-> participant.role]] >>
       ELSE /\ sent' = <<>>
            /\ UNCHANGED <<liveInterviewRooms, sioRooms>>
    /\ last' = [op |-> "leave-live-interview", by |-> socket, room |-> sessionId]
    /\ joined' = [joined EXCEPT ![sessionId] = @ \ {socket}]
    /\ UNCHANGED <<conn, secondaryCameraMappings, proctorDashboardSockets,
                   pendingTeardowns, tornDown, lastUpdate, notSocket>>

\* the rooms of the registry in a fixed order (the Map iterates in creation order)
RoomOrder == <<"r1", "r2">>

\* the emits of the disconnect loop for the rooms from position i on
RECURSIVE DisconnectEmits(_, _, _)
DisconnectEmits(socket, sio, i) ==
    IF i > Len(RoomOrder) THEN <<>>
    ELSE LET sessionId == RoomOrder[i]
             rest == DisconnectEmits(socket, sio, i + 1)
         IN IF /\ sessionId \in DOMAIN liveInterviewRooms
               /\ socket \in DOMAIN liveInterviewRooms[sessionId].participants
            THEN LET role == liveInterviewRooms[sessionId].participants[socket].role
                 IN << [event |-> "participant-left",
                        to |-> sio[LiveRoom(sessionId)],
                        payload |-> [socketId |-> socket, role |-> role]],
                       [event |-> "live-session-update", to |-> sio[Dashboard],
                        payload |-> [sessionId |-> sessionId,
                                     type |-> "participant-left", role |-> role]] >>
                    \o rest
            ELSE rest

\* variant: the handler only cleans the dashboard set
DisconnectKeepsParticipants(socket) ==
    LET sio == [n \in RoomNames |-> sioRooms[n] \ {socket}] IN
    /\ conn[socket] = "connected"
    /\ conn' = [conn EXCEPT ![socket] = "gone"]
    /\ sioRooms' = sio
    /\ sent' = <<>>
    /\ proctorDashboardSockets' = proctorDashboardSockets \ {socket}
    /\ last' = [op |-> "disconnect", by |-> socket]
    /\ joined' = [r \in LiveIds |-> joined[r] \ {socket}]
    /\ UNCHANGED <<liveInterviewRooms, secondaryCameraMappings, pendingTeardowns,
                   tornDown, lastUpdate, notSocket>>

\* socket.on('disconnect'): socket.io has taken the socket out of every room
Disconnect(socket) ==
    LET sio == [n \in RoomNames |-> sioRooms[n] \ {socket}] IN
    /\ conn[socket] = "connected"
    /\ conn' = [conn EXCEPT ![socket] = "gone"]
    /\ sioRooms' = sio
    /\ liveInterviewRooms' =
         [r \in DOMAIN liveInterviewRooms |->
            IF socket \in DOMAIN liveInterviewRooms[r].participants
            THEN [liveInterviewRooms[r] EXCEPT
                     !.participants = MapDelete(@, socket),
                     !.screenShares = MapDelete(@, socket)]
            ELSE liveInterviewRooms[r]]
    /\ sent' = DisconnectEmits(socket, sio, 1)
    /\ proctorDashboardSockets' = proctorDashboardSockets \ {socket}
    /\ last' = [op |-> "disconnect", by |-> socket]
    /\ joined' = [r \in LiveIds |-> joined[r] \ {socket}]
    /\ UNCHANGED <<secondaryCameraMappings, pendingTeardowns, tornDown,
                   lastUpdate, notSocket>>

\* socket.on('end-live-interview')
EndLiveInterview(socket, sessionId) ==
    /\ conn[socket] = "connected"
    /\ sent' = << IoTo(LiveRoom(sessionId), "interview-ended",
                       [endedBy |-> socket]) >>
    /\ pendingTeardowns' = [pendingTeardowns EXCEPT ![sessionId] = @ + 1]
    /\ last' = [op |-> "end-live-interview", by |-> socket, room |-> sessionId]
    /\ UNCHANGED <<conn, sioRooms, liveInterviewRooms, secondaryCameraMappings,
                   proctorDashboardSockets, joined, tornDown, lastUpdate,
                   notSocket>>

\* variant: the callback leaves a room that still has participants
TeardownTimerSparesOccupied(sessionId) ==
    LET occupied == /\ sessionId \in DOMAIN liveInterviewRooms
                    /\ DOMAIN liveInterviewRooms[sessionId].participants # {}
    IN
    /\ pendingTeardowns[sessionId] > 0
    /\ pendingTeardowns' = [pendingTeardowns EXCEPT ![sessionId] = @ - 1]
    /\ liveInterviewRooms' = IF occupied THEN liveInterviewRooms
                             ELSE MapDelete(liveInterviewRooms, sessionId)
    /\ sent' = <<>>
    /\ last' = [op |-> "teardown", room |-> sessionId]
    /\ tornDown' = IF occupied THEN tornDown ELSE tornDown \cup {sessionId}
    /\ lastUpdate' = IF occupied THEN lastUpdate
                     ELSE [lastUpdate EXCEPT ![sessionId] = NoUpdate]
    /\ UNCHANGED <<conn, sioRooms, secondaryCameraMappings,
                   proctorDashboardSockets, joined, notSocket>>

\* the setTimeout callback of end-live-interview, 30 s later
TeardownTimer(sessionId) ==
    /\ pendingTeardowns[sessionId] > 0
    /\ pendingTeardowns' = [pendingTeardowns EXCEPT ![sessionId] = @ - 1]
    /\ liveInterviewRooms' = MapDelete(liveInterviewRooms, sessionId)
    /\ sent' = <<>>
    /\ last' = [op |-> "teardown", room |-> sessionId]
    /\ tornDown' = tornDown \cup {sessionId}
    /\ lastUpdate' = [lastUpdate EXCEPT ![sessionId] = NoUpdate]
    /\ UNCHANGED <<conn, sioRooms, secondaryCameraMappings,
                   proctorDashboardSockets, joined, notSocket>>

\* variant: the update stores the text but not the language
LiveCodeUpdateTextOnly(socket, sessionId, code, language, cursorPosition) ==
    /\ conn[socket] = "connected"
    /\ IF sessionId \in DOMAIN liveInterviewRooms
       THEN /\ liveInterviewRooms' =
                 [liveInterviewRooms EXCEPT
                     ![sessionId].codeState.code = code,
                     ![sessionId].codeState.cursorPositions =
                         MapSet(@, socket, [cursorPosition |-> cursorPosition])]
            /\ sent' = << SocketTo(socket, LiveRoom(sessionId), "live-code-update",
                                   [code |-> code, language |-> language,
                                    from |-> socket]) >>
            /\ lastUpdate' = [lastUpdate EXCEPT ![sessionId] =
                                 [seen |-> TRUE, code |-> code, language |-> language]]
       ELSE /\ sent' = <<>>
            /\ UNCHANGED <<liveInterviewRooms, lastUpdate>>
    /\ last' = [op |-> "live-code-update", by |-> socket, room |-> sessionId]
    /\ UNCHANGED <<conn, sioRooms, secondaryCameraMappings,
                   proctorDashboardSockets, pendingTeardowns, joined, tornDown,
                   notSocket>>

\* socket.on('live-code-update')
LiveCodeUpdate(socket, sessionId, code, language, cursorPosition) ==
    /\ conn[socket] = "connected"
    /\ IF sessionId \in DOMAIN liveInterviewRooms
       THEN /\ liveInterviewRooms' =
                 [liveInterviewRooms EXCEPT
                     ![sessionId].codeState.code = code,
                     ![sessionId].codeState.language = language,
                     ![sessionId].codeState.cursorPositions =
                         MapSet(@, socket, [cursorPosition |-> cursorPosition])]
            /\ sent' = << SocketTo(socket, LiveRoom(sessionId), "live-code-update",
                                   [code |-> code, language |-> language,
                                    from |-> socket]) >>
            /\ lastUpdate' = [lastUpdate EXCEPT ![sessionId] =
                                 [seen |-> TRUE, code |-> code, language |-> language]]
       ELSE /\ sent' = <<>>
            /\ UNCHANGED <<liveInterviewRooms, lastUpdate>>
    /\ last' = [op |-> "live-code-update", by |-> socket, room |-> sessionId]
    /\ UNCHANGED <<conn, sioRooms, secondaryCameraMappings,
                   proctorDashboardSockets, pendingTeardowns, joined, tornDown,
                   notSocket>>

\* socket.on('whiteboard-draw')
WhiteboardDraw(socket, sessionId, drawData) ==
    /\ conn[socket] = "connected"
    /\ liveInterviewRooms' =
         IF sessionId \in DOMAIN liveInterviewRooms
         THEN [liveInterviewRooms EXCEPT ![sessionId].whiteboard = Append(@, drawData)]
         ELSE liveInterviewRooms
    /\ sent' = << SocketTo(socket, LiveRoom(sessionId), "whiteboard-draw",
                           [drawData |-> drawData, from |-> socket]) >>
    /\ last' = [op |-> "whiteboard-draw", by |-> socket, room |-> sessionId]
    /\ UNCHANGED <<conn, sioRooms, secondaryCameraMappings,
                   proctorDashboardSockets, pendingTeardowns, joined, tornDown,
                   lastUpdate, notSocket>>

\* socket.on('whiteboard-clear')
WhiteboardClear(socket, sessionId) ==
    /\ conn[socket] = "connected"
    /\ liveInterviewRooms' =
         IF sessionId \in DOMAIN liveInterviewRooms
         THEN [liveInterviewRooms EXCEPT ![sessionId].whiteboard = <<>>]
         ELSE liveInterviewRooms
    /\ sent' = << IoTo(LiveRoom(sessionId), "whiteboard-cleared", [none |-> TRUE]) >>
    /\ last' = [op |-> "whiteboard-clear", by |-> socket, room |-> sessionId]
    /\ UNCHANGED <<conn, sioRooms, secondaryCameraMappings,
                   proctorDashboardSockets, pendingTeardowns, joined, tornDown,
                   lastUpdate, notSocket>>

\* io.to(to).emit(event, {..., from: socket.id}) of the six signaling handlers
Relay(socket, event, to) ==
    /\ conn[socket] = "connected"
    /\ sent' = << IoTo(to, event, [from |-> socket]) >>
    /\ last' = [op |-> event, by |-> socket, target |-> to]
    /\ UNCHANGED <<conn, sioRooms, liveInterviewRooms, secondaryCameraMappings,
                   proctorDashboardSockets, pendingTeardowns, joined, tornDown,
                   lastUpdate, notSocket>>

\* socket.on('webrtc-offer-multi')
WebrtcOfferMulti(socket, to) == Relay(socket, "webrtc-offer-multi", to)

\* socket.on('webrtc-answer-multi')
WebrtcAnswerMulti(socket, to) == Relay(socket, "webrtc-answer-multi", to)

\* socket.on('webrtc-ice-candidate-multi')
WebrtcIceCandidateMulti(socket, to) == Relay(socket, "webrtc-ice-candidate-multi", to)

\* socket.on('webrtc-offer')
WebrtcOffer(socket, to) == Relay(socket, "webrtc-offer", to)

\* socket.on('webrtc-answer')
WebrtcAnswer(socket, to) == Relay(socket, "webrtc-answer", to)

\* socket.on('webrtc-ice-candidate')
WebrtcIceCandidate(socket, to) == Relay(socket, "webrtc-ice-candidate", to)

\* socket.on('join-proctor-dashboard')
JoinProctorDashboard(socket) ==
    /\ conn[socket] = "connected"
    /\ sioRooms' = SioJoin(sioRooms, socket, Dashboard)
    /\ proctorDashboardSockets' = proctorDashboardSockets \cup {socket}
    /\ sent' = <<>>
    /\ last' = [op |-> "join-proctor-dashboard", by |-> socket]
    /\ UNCHANGED <<conn, liveInterviewRooms, secondaryCameraMappings,
                   pendingTeardowns, joined, tornDown, lastUpdate, notSocket>>

\* socket.on('join-interview')
JoinInterview(socket, interviewId, role) ==
    LET sio == SioJoin(sioRooms, socket, interviewId) IN
    /\ conn[socket] = "connected"
    /\ sioRooms' = sio
    /\ sent' = << [event |-> "user-joined", to |-> sio[interviewId] \ {socket},
                   payload |-> [userId |-> socket, role |-> role]],
                  [event |-> "session-update", to |-> sio[Dashboard],
                   payload |-> [interviewId |-> interviewId,
                                type |-> "user-joined", role |-> role]] >>
    /\ last' = [op |-> "join-interview", by |-> socket, room |-> interviewId]
    /\ UNCHANGED <<conn, liveInterviewRooms, secondaryCameraMappings,
                   proctorDashboardSockets, pendingTeardowns, joined, tornDown,
                   lastUpdate, notSocket>>

\* socket.on('register-secondary-camera')
RegisterSecondaryCamera(socket, interviewId, code) ==
    /\ conn[socket] = "connected"
    /\ secondaryCameraMappings' =
         MapSet(secondaryCameraMappings, code,
                [interviewId |-> interviewId, mainSocketId |-> socket,
                 phoneSocketId |-> Undefined])
    /\ sent' = <<>>
    /\ last' = [op |-> "register-secondary-camera", by |-> socket, code |-> code]
    /\ UNCHANGED <<conn, sioRooms, liveInterviewRooms, proctorDashboardSockets,
                   pendingTeardowns, joined, tornDown, lastUpdate, notSocket>>

\* socket.on('connect-secondary-camera')
ConnectSecondaryCamera(socket, code) ==
    /\ conn[socket] = "connected"
    /\ IF code \in DOMAIN secondaryCameraMappings
       THEN /\ secondaryCameraMappings' =
                 [secondaryCameraMappings EXCEPT ![code].phoneSocketId = socket]
            /\ sent' = << IoTo(secondaryCameraMappings[code].mainSocketId,
                               "secondary-camera-connected", [status |-> "ok"]) >>
       ELSE /\ sent' = <<>>
            /\ UNCHANGED secondaryCameraMappings
    /\ last' = [op |-> "connect-secondary-camera", by |-> socket, code |-> code]
    /\ UNCHANGED <<conn, sioRooms, liveInterviewRooms, proctorDashboardSockets,
                   pendingTeardowns, joined, tornDown, lastUpdate, notSocket>>

\* socket.on('start-screen-share')
StartScreenShare(socket, sessionId, streamType) ==
    /\ conn[socket] = "connected"
    /\ IF sessionId \in DOMAIN liveInterviewRooms
       THEN /\ liveInterviewRooms' =
                 [liveInterviewRooms EXCEPT
                     ![sessionId].screenShares =
                         MapSet(@, socket, [streamType |-> streamType])]
            /\ sent' = << SocketTo(socket, LiveRoom(sessionId),
                                   "screen-share-started",
                                   [socketId |-> socket,
                                    streamType |-> streamType]) >>
       ELSE /\ sent' = <<>>
            /\ UNCHANGED liveInterviewRooms
    /\ last' = [op |-> "start-screen-share", by |-> socket, room |-> sessionId]
    /\ UNCHANGED <<conn, sioRooms, secondaryCameraMappings,
                   proctorDashboardSockets, pendingTeardowns, joined, tornDown,
                   lastUpdate, notSocket>>

\* socket.on('stop-screen-share')
StopScreenShare(socket, sessionId) ==
    /\ conn[socket] = "connected"
    /\ IF sessionId \in DOMAIN liveInterviewRooms
       THEN /\ liveInterviewRooms' =
                 [liveInterviewRooms EXCEPT
                     ![sessionId].screenShares = MapDelete(@, socket)]
            /\ sent' = << SocketTo(socket, LiveRoom(sessionId),
                                   "screen-share-stopped",
                                   [socketId |-> socket]) >>
       ELSE /\ sent' = <<>>
            /\ UNCHANGED liveInterviewRooms
    /\ last' = [op |-> "stop-screen-share", by |-> socket, room |-> sessionId]
    /\ UNCHANGED <<conn, sioRooms, secondaryCameraMappings,
                   proctorDashboardSockets, pendingTeardowns, joined, tornDown,
                   lastUpdate, notSocket>>

\* socket.on('camera-status-update')
CameraStatusUpdate(socket, sessionId, cameraType, enabled, streamId) ==
    /\ conn[socket] = "connected"
    /\ IF /\ sessionId \in DOMAIN liveInterviewRooms
          /\ socket \in DOMAIN liveInterviewRooms[sessionId].participants
       THEN /\ liveInterviewRooms' =
                 [liveInterviewRooms EXCEPT
                     ![sessionId].participants[socket].cameras[cameraType] =
                         [enabled |-> enabled, streamId |-> streamId]]
            /\ sent' = << SocketTo(socket, LiveRoom(sessionId),
                                   "participant-camera-update",
                                   [socketId |-> socket, cameraType |-> cameraType,
                                    enabled |-> enabled, streamId |-> streamId]) >>
       ELSE /\ sent' = <<>>
            /\ UNCHANGED liveInterviewRooms
    /\ last' = [op |-> "camera-status-update", by |-> socket, room |-> sessionId]
    /\ UNCHANGED <<conn, sioRooms, secondaryCameraMappings,
                   proctorDashboardSockets, pendingTeardowns, joined, tornDown,
                   lastUpdate, notSocket>>

\* socket.on('cursor-position')
CursorPosition(socket, sessionId, cursorPosition) ==
    /\ conn[socket] = "connected"
    /\ sent' = << SocketTo(socket, LiveRoom(sessionId), "cursor-position",
                           [socketId |-> socket,
                            cursorPosition |-> cursorPosition]) >>
    /\ last' = [op |-> "cursor-position", by |-> socket, room |-> sessionId,
                cursorPosition |-> cursorPosition]
    /\ UNCHANGED <<conn, sioRooms, liveInterviewRooms, secondaryCameraMappings,
                   proctorDashboardSockets, pendingTeardowns, joined, tornDown,
                   lastUpdate, notSocket>>

\* socket.on('proctoring-event')
ProctoringEvent(socket, interviewId, event) ==
    /\ conn[socket] = "connected"
    /\ sent' = << SocketTo(socket, interviewId, "proctoring-alert",
                           [event |-> event]),
                  IoTo(Dashboard, "proctoring-alert",
                       [interviewId |-> interviewId, event |-> event]) >>
    /\ last' = [op |-> "proctoring-event", by |-> socket, room |-> interviewId]
    /\ UNCHANGED <<conn, sioRooms, liveInterviewRooms, secondaryCameraMappings,
                   proctorDashboardSockets, pendingTeardowns, joined, tornDown,
                   lastUpdate, notSocket>>

\* variant: the sender leaves the dashboard set whether or not the code is known
SecondarySnapshotAlwaysLeaves(socket, code, snapshot) ==
    /\ conn[socket] = "connected"
    /\ IF code \in DOMAIN secondaryCameraMappings
       THEN LET mapping == secondaryCameraMappings[code] IN
            sent' = << IoTo(mapping.mainSocketId, "secondary-snapshot",
                            [snapshot |-> snapshot]),
                       SocketTo(socket, mapping.interviewId,
                                "secondary-snapshot", [snapshot |-> snapshot]) >>
       ELSE sent' = <<>>
    /\ proctorDashboardSockets' = proctorDashboardSockets \ {socket}
    /\ last' = [op |-> "secondary-snapshot", by |-> socket, code |-> code]
    /\ UNCHANGED <<conn, sioRooms, liveInterviewRooms, secondaryCameraMappings,
                   pendingTeardowns, joined, tornDown, lastUpdate, notSocket>>

\* socket.on('secondary-snapshot')
SecondarySnapshot(socket, code, snapshot) ==
    /\ conn[socket] = "connected"
    /\ IF code \in DOMAIN secondaryCameraMappings
       THEN LET mapping == secondaryCameraMappings[code] IN
            /\ sent' = << IoTo(mapping.mainSocketId, "secondary-snapshot",
                               [snapshot |-> snapshot]),
                          SocketTo(socket, mapping.interviewId,
                                   "secondary-snapshot", [snapshot |-> snapshot]) >>
            /\ proctorDashboardSockets' = proctorDashboardSockets \ {socket}
       ELSE /\ sent' = <<>>
            /\ UNCHANGED proctorDashboardSockets
    /\ last' = [op |-> "secondary-snapshot", by |-> socket, code |-> code]
    /\ UNCHANGED <<conn, sioRooms, liveInterviewRooms, secondaryCameraMappings,
                   pendingTeardowns, joined, tornDown, lastUpdate, notSocket>>

\* ---------------------------------------------------------------- initial state
Init ==
    /\ proctoringEvents = EmptyMap
    /\ activeSessions = EmptyMap
    /\ identityVerifications = EmptyMap
    /\ verifyInFlight = <<>>
    /\ res = NoResponse
    /\ last = [op |-> "init"]
    /\ prevScore = [k \in PKeys |-> NoAnswer]
    /\ liveInterviewSessions = EmptyMap
    /\ now = 0
    /\ statusHist = EmptyMap
    /\ conn = [e \in Endpoints |-> "new"]
    /\ sioRooms = [n \in RoomNames |-> {}]
    /\ liveInterviewRooms = EmptyMap
    /\ secondaryCameraMappings = EmptyMap
    /\ proctorDashboardSockets = {}
    /\ pendingTeardowns = [r \in LiveIds |-> 0]
    /\ sent = <<>>
    /\ joined = [r \in LiveIds |-> {}]
    /\ tornDown = {}
    /\ lastUpdate = [r \in LiveIds |-> NoUpdate]

\* ---------------------------------------------------------------- specifications
AllEvents ==
    LET RECURSIVE Sum(_)
        Sum(S) == IF S = {} THEN 0
                  ELSE LET k == CHOOSE x \in S : TRUE
                       IN Len(proctoringEvents[k]) + Sum(S \ {k})
    IN Sum(DOMAIN proctoringEvents)

AllRecords ==
    LET RECURSIVE Sum(_)
        Sum(S) == IF S = {} THEN 0
                  ELSE LET k == CHOOSE x \in S : TRUE
                       IN Len(identityVerifications[k]) + Sum(S \ {k})
    IN Sum(DOMAIN identityVerifications)

\* the score of one log, every severity, logs long enough to reach the floor
ScoreNext ==
    \/ \E sev \in Severities :
         /\ Len(EventsOf("p1")) < MaxLog
         /\ PostEvent("p1", "tab_switch", sev)
    \/ GetScore("p1")

ScoreSpec == Init /\ [][ScoreNext]_vars

\* everything that moves a score, and the score query; the verifier and the
\* session table act on one interview, events and score queries on two
ProctorNext ==
    \/ \E id \in PIds, t \in EventTypes, sev \in {"low", "critical"} :
         /\ AllEvents < MaxEvents
         /\ PostEvent(id, t, sev)
    \/ GetEvents("p1")
    \/ \E id \in PIds : GetScore(id)
    \/ PostSession("p1")
    \/ DeleteSession("p1")
    \/ /\ Len(verifyInFlight) < MaxPending
       /\ VerifyIdentityStart("p1", "u1", "img")
    \/ \E k \in 1..Len(verifyInFlight), o \in VerifierOutcomes :
         /\ (o \in {"not_verified", "no_verdict"} => AllEvents < MaxEvents)
         /\ (o # "throw" => AllRecords < MaxRecords)
         /\ VerifyIdentityComplete(k, o)

ProctorSpec == Init /\ [][ProctorNext]_vars

\* everything that writes an event log, and the query that lists it
LogNext ==
    \/ \E id \in PIds, sev \in {"low", "critical"} :
         /\ AllEvents < MaxEvents
         /\ PostEvent(id, "tab_switch", sev)
    \/ \E id \in PIds : GetEvents(id)
    \/ PostSession("p1")
    \/ DeleteSession("p1")
    \/ /\ Len(verifyInFlight) < MaxPending
       /\ VerifyIdentityStart("p1", "u1", "img")
    \/ \E k \in 1..Len(verifyInFlight), o \in VerifierOutcomes :
         /\ (o \in {"not_verified", "no_verdict"} => AllEvents < MaxEvents)
         /\ (o # "throw" => AllRecords < MaxRecords)
         /\ VerifyIdentityComplete(k, o)

LogSpec == Init /\ [][LogNext]_vars

Stored(id) ==
    IF id \in DOMAIN liveInterviewSessions
    THEN Len(liveInterviewSessions[id].codeSnapshots)
         + Len(liveInterviewSessions[id].proctoringEvents)
    ELSE 0

\* the live-interview sessions of resume.js; s2 is never created
SessionNext ==
    \/ CreateSession("s1", "AB12CD")
    \/ \E id \in SIds, role \in Roles, code \in AccessCodes :
         /\ (id \in DOMAIN liveInterviewSessions =>
               Len(liveInterviewSessions[id].participants) < MaxParticipants)
         /\ JoinSession(id, role, code)
    \/ \E id \in SIds : EndSession(id, "ok")
    \/ \E id \in SIds : (Stored(id) < MaxStored /\ SaveSnapshot(id, "code"))
    \/ \E id \in SIds : (Stored(id) < MaxStored /\ SaveProctoringEvent(id, "tab_switch"))
    \/ (now < MaxTime /\ Tick)

SessionSpec == Init /\ [][SessionNext]_vars

\* joining with and without the access code: s1 is created, joined with
\* either code and ended; s2 is never created
AccessNext ==
    \/ CreateSession("s1", "AB12CD")
    \/ \E id \in SIds, role \in Roles, code \in AccessCodes :
         /\ (id \in DOMAIN liveInterviewSessions =>
               Len(liveInterviewSessions[id].participants) < MaxParticipants)
         /\ JoinSession(id, role, code)
    \/ \E id \in SIds : EndSession(id, "ok")

AccessSpec == Init /\ [][AccessNext]_vars

\* the room registry, two sockets over two rooms
RoomEndpoints == {"e1", "e2"}

RoomNext ==
    \/ \E e \in RoomEndpoints : Connect(e)
    \/ \E e \in RoomEndpoints : Disconnect(e)
    \/ \E e \in RoomEndpoints, r \in LiveIds, role \in SocketRoles :
         JoinLiveInterview(e, r, role)
    \/ \E e \in RoomEndpoints, r \in LiveIds : handleLiveInterviewLeave(e, r)
    \/ \E e \in RoomEndpoints, r \in LiveIds :
         (pendingTeardowns[r] < MaxTimers /\ EndLiveInterview(e, r))
    \/ \E r \in LiveIds : TeardownTimer(r)

RoomSpec == Init /\ [][RoomNext]_vars

\* shared code and whiteboard: room r1 is joined, updated, drawn on and torn
\* down; room r2 is joined by one socket and takes one kind of update
CollabNext ==
    \/ \E e \in RoomEndpoints : Connect(e)
    \/ \E e \in RoomEndpoints : Disconnect(e)
    \/ \E e \in RoomEndpoints : JoinLiveInterview(e, "r1", "candidate")
    \/ JoinLiveInterview("e2", "r2", "candidate")
    \/ \E e \in RoomEndpoints, c \in CodeTexts, l \in Languages :
         LiveCodeUpdate(e, "r1", c, l, 1)
    \/ LiveCodeUpdate("e2", "r2", "b", "python", 1)
    \/ \E e \in RoomEndpoints, k \in Strokes :
         /\ ("r1" \in DOMAIN liveInterviewRooms =>
               Len(liveInterviewRooms["r1"].whiteboard) < MaxStrokes)
         /\ WhiteboardDraw(e, "r1", k)
    \/ \E e \in RoomEndpoints : WhiteboardClear(e, "r1")
    \/ \E e \in RoomEndpoints :
         (pendingTeardowns["r1"] < MaxTimers /\ EndLiveInterview(e, "r1"))
    \/ TeardownTimer("r1")

CollabSpec == Init /\ [][CollabNext]_vars

\* what a signaling message may name as its target
RelayTargets == {"e1", "e2", Dashboard, "nobody"}

\* the signaling relay next to the handlers that put sockets into rooms
RelayNext ==
    \/ \E e \in Endpoints : Connect(e)
    \/ \E e \in Endpoints : Disconnect(e)
    \/ \E e \in Endpoints : JoinProctorDashboard(e)
    \/ \E e \in Endpoints, i \in InterviewIds : JoinInterview(e, i, "candidate")
    \/ \E e \in Endpoints, t \in RelayTargets : WebrtcOfferMulti(e, t)
    \/ \E e \in Endpoints, t \in RelayTargets : WebrtcAnswerMulti(e, t)
    \/ \E e \in Endpoints, t \in RelayTargets : WebrtcIceCandidateMulti(e, t)
    \/ \E e \in Endpoints, t \in RelayTargets : WebrtcOffer(e, t)
    \/ \E e \in Endpoints, t \in RelayTargets : WebrtcAnswer(e, t)
    \/ \E e \in Endpoints, t \in RelayTargets : WebrtcIceCandidate(e, t)

RelaySpec == Init /\ [][RelayNext]_vars

\* the pairing registry next to the handlers that put sockets into rooms
PairNext ==
    \/ \E e \in Endpoints : Connect(e)
    \/ \E e \in Endpoints : Disconnect(e)
    \/ \E e \in Endpoints, i \in InterviewIds : JoinInterview(e, i, "candidate")
    \/ \E e \in Endpoints, c \in PairingCodes : RegisterSecondaryCamera(e, "i1", c)
    \/ \E e \in Endpoints, c \in PairingCodes \cup {"NOCODE"} :
         ConnectSecondaryCamera(e, c)

PairSpec == Init /\ [][PairNext]_vars

\* room membership next to screen sharing and the dashboard group, two
\* sockets over two rooms
MemberNext ==
    \/ \E e \in RoomEndpoints : Connect(e)
    \/ \E e \in RoomEndpoints : Disconnect(e)
    \/ \E e \in RoomEndpoints, r \in LiveIds : JoinLiveInterview(e, r, "candidate")
    \/ \E e \in RoomEndpoints, r \in LiveIds : handleLiveInterviewLeave(e, r)
    \/ \E e \in RoomEndpoints, r \in LiveIds : StartScreenShare(e, r, "screen")
    \/ \E e \in RoomEndpoints, r \in LiveIds : StopScreenShare(e, r)
    \/ \E e \in RoomEndpoints : JoinProctorDashboard(e)

MemberSpec == Init /\ [][MemberNext]_vars

\* the read paths next to the requests that make an interview known; p2 is
\* recorded but never registered, p3 is neither
ReadIds == PIds \cup {"p3"}

ReadNext ==
    \/ \E id \in PIds, sev \in {"low", "high"} :
         /\ AllEvents < MaxEvents
         /\ PostEvent(id, "tab_switch", sev)
    \/ PostSession("p1")
    \/ DeleteSession("p1")
    \/ \E id \in ReadIds : GetEvents(id)
    \/ \E id \in ReadIds : GetScore(id)
    \/ \E id \in ReadIds : GetDashboardSession(id)

ReadSpec == Init /\ [][ReadNext]_vars

\* requests that lack fields next to complete ones, on one interview
InputNext ==
    \/ \E id \in {"p1", Undefined}, t \in EventTypes \cup {Undefined},
          sev \in {"low", Undefined} :
         /\ AllEvents < MaxEvents
         /\ PostEvent(id, t, sev)
    \/ \E id \in {"p1", Undefined} : PostSession(id)
    \/ \E id \in {"p1", Undefined}, u \in UserIds \cup {Undefined},
          img \in Images \cup {Undefined} :
         /\ Len(verifyInFlight) < MaxPending
         /\ VerifyIdentityStart(id, u, img)
    \/ \E k \in 1..Len(verifyInFlight), o \in {"throw", "verified"} :
         /\ (o # "throw" => AllRecords < MaxRecords)
         /\ VerifyIdentityComplete(k, o)

InputSpec == Init /\ [][InputNext]_vars

\* the secondary device next to the dashboard group, two sockets
SnapshotCodes == PairingCodes \cup {"NOCODE"}

SnapshotNext ==
    \/ \E e \in RoomEndpoints : Connect(e)
    \/ \E e \in RoomEndpoints : Disconnect(e)
    \/ \E e \in RoomEndpoints : JoinProctorDashboard(e)
    \/ \E e \in RoomEndpoints : JoinInterview(e, "i1", "candidate")
    \/ \E e \in RoomEndpoints : ProctoringEvent(e, "i1", "tab_switch")
    \/ \E e \in RoomEndpoints, c \in PairingCodes : RegisterSecondaryCamera(e, "i1", c)
    \/ \E e \in RoomEndpoints, c \in SnapshotCodes : ConnectSecondaryCamera(e, c)
    \/ \E e \in RoomEndpoints, c \in SnapshotCodes : SecondarySnapshot(e, c, "frame")

SnapshotSpec == Init /\ [][SnapshotNext]_vars

\* the grace period of one room: the event loop runs every timer callback
\* that is due, so a pending teardown cannot stay pending for ever
GraceNext ==
    \/ \E e \in RoomEndpoints : Connect(e)
    \/ \E e \in RoomEndpoints : Disconnect(e)
    \/ \E e \in RoomEndpoints : JoinLiveInterview(e, "r1", "candidate")
    \/ \E e \in RoomEndpoints : handleLiveInterviewLeave(e, "r1")
    \/ \E e \in RoomEndpoints : LiveCodeUpdate(e, "r1", "b", "python", 1)
    \/ \E e \in RoomEndpoints :
         (pendingTeardowns["r1"] < MaxTimers /\ EndLiveInterview(e, "r1"))
    \/ TeardownTimer("r1")

GraceSpec == Init /\ [][GraceNext]_vars /\ WF_vars(TeardownTimer("r1"))

\* every kind of update of one room, before it exists, while it exists and
\* after its teardown
UpdateNext ==
    \/ \E e \in RoomEndpoints : Connect(e)
    \/ \E e \in RoomEndpoints : JoinLiveInterview(e, "r1", "candidate")
    \/ \E e \in RoomEndpoints :
         (pendingTeardowns["r1"] < MaxTimers /\ EndLiveInterview(e, "r1"))
    \/ TeardownTimer("r1")
    \/ \E e \in RoomEndpoints : LiveCodeUpdate(e, "r1", "b", "python", 1)
    \/ \E e \in RoomEndpoints : CursorPosition(e, "r1", 2)
    \/ \E e \in RoomEndpoints :
         /\ ("r1" \in DOMAIN liveInterviewRooms =>
               Len(liveInterviewRooms["r1"].whiteboard) < MaxStrokes)
         /\ WhiteboardDraw(e, "r1", "k1")
    \/ \E e \in RoomEndpoints : WhiteboardClear(e, "r1")
    \/ \E e \in RoomEndpoints : StartScreenShare(e, "r1", "screen")
    \/ \E e \in RoomEndpoints : StopScreenShare(e, "r1")
    \/ \E e \in RoomEndpoints : CameraStatusUpdate(e, "r1", "secondary", TRUE, "m1")

UpdateSpec == Init /\ [][UpdateNext]_vars

\* the dashboard listing next to the score query: one interview with a log
\* longer than the listing's window, a second one that is only registered
DashboardNext ==
    \/ \E sev \in {"low", "critical"} :
         /\ Len(EventsOf("p1")) < MaxLog
         /\ PostEvent("p1", "tab_switch", sev)
    \/ \E id \in PIds : PostSession(id)
    \/ \E id \in PIds : DeleteSession(id)
    \/ GetScore("p1")
    \/ GetDashboardSessions

DashboardSpec == Init /\ [][DashboardNext]_vars

\* one interview: events recorded while up to MaxConcurrent verifications of
\* two users wait for the verifier and resume in any order
ConcurrentNext ==
    \/ /\ Len(EventsOf("p1")) < MaxEvents + MaxConcurrent
       /\ PostEvent("p1", "tab_switch", "low")
    \/ \E u \in {"u1", "u2"} :
         /\ Len(verifyInFlight) < MaxConcurrent
         /\ VerifyIdentityStart("p1", u, "img")
    \/ \E k \in 1..Len(verifyInFlight),
          o \in {"throw", "verified", "not_verified"} :
         /\ (o = "not_verified" =>
                Len(EventsOf("p1")) < MaxEvents + MaxConcurrent)
         /\ (o # "throw" => AllRecords < MaxConcurrent)
         /\ VerifyIdentityComplete(k, o)

ConcurrentSpec == Init /\ [][ConcurrentNext]_vars

\* ---------------------------------------------------------------- properties
CountSeverity(events, sev) ==
    Cardinality({i \in 1..Len(events) : events[i].severity = sev})

TableDeduction(events) ==
    2 * CountSeverity(events, "low") + 5 * CountSeverity(events, "medium")
    + 10 * CountSeverity(events, "high") + 20 * CountSeverity(events, "critical")

SeveritiesOf(events) == [i \in 1..Len(events) |-> events[i].severity]

ScoreAnswered == last.op = "GET /:interviewId/score"

\* C2: the score answered by GET /:interviewId/score is
\* max(0, 100 - (2*#low + 5*#medium + 10*#high + 20*#critical)) of the log,
\* hence within 0..100; [low, critical] gives 78, [medium, medium, high] 80.
C2_ScoreIsTableFold ==
    ScoreAnswered =>
        LET events == EventsOf(last.id)
            score == res.body.score
        IN /\ score = Max(0, 100 - TableDeduction(events))
           /\ score \in 0..100
           /\ (SeveritiesOf(events) = <<"low", "critical">> => score = 78)
           /\ (SeveritiesOf(events) = <<"medium", "medium", "high">> => score = 80)

\* C2 witness: a score answered for a log whose deductions exceed 100
C2_FloorReached ==
    /\ ScoreAnswered
    /\ TableDeduction(EventsOf(last.id)) > 100
    /\ res.body.score = 0

\* C3: no step of the pipeline (event, verification, session registration,
\* session end) makes the score of any interview greater than it was.
C3_ScoreNeverIncreases ==
    [][\A id \in PKeys : ScoreResponse(id)'.score <= ScoreResponse(id).score]_vars

\* C3 witness: an interview that was registered and ended, whose log holds a
\* recorded event and a verification mismatch, and whose score went down
C3_ScoreWentDown ==
    /\ "p1" \in DOMAIN activeSessions
    /\ activeSessions["p1"].status = "completed"
    /\ \E i, j \in 1..Len(EventsOf("p1")) :
         /\ EventsOf("p1")[i].eventType = "identity_mismatch"
         /\ EventsOf("p1")[j].eventType = "tab_switch"
    /\ ScoreResponse("p1").score < 100

\* C4: a score query changes no event log, session or verification record,
\* and answers what the previous query for the same interview answered when
\* no event was appended to that interview's log in between.
C4_ScoreQueryIsPureRead ==
    [][last'.op = "GET /:interviewId/score" =>
         /\ UNCHANGED <<proctoringEvents, activeSessions, identityVerifications>>
         /\ (prevScore[last'.id].asked > 0 =>
                res'.body = prevScore[last'.id].body)]_vars

\* C4 witness: a second query answered, with a session registered after the
\* events were recorded
C4_SecondQueryAnswered ==
    /\ ScoreAnswered
    /\ last.id = "p1"
    /\ prevScore["p1"].asked = 2
    /\ "p1" \in DOMAIN activeSessions
    /\ activeSessions["p1"].eventCount < Len(EventsOf("p1"))

RolesOf(participants) == [i \in 1..Len(participants) |-> participants[i].role]

Ended(id) == \E i \in 1..Len(statusHist[id]) : statusHist[id][i] = "completed"

\* the status walk of a session that was never ended and whose first two
\* joins had the roles first and second
StatusWalk(first, second) ==
    \A id \in DOMAIN liveInterviewSessions :
        LET session == liveInterviewSessions[id]
            roles == RolesOf(session.participants)
        IN (~Ended(id) /\ Len(roles) >= 1 /\ roles[1] = first) =>
             /\ (Len(roles) = 1 => /\ statusHist[id] = <<"scheduled", "waiting">>
                                   /\ session.startedAt = Null)
             /\ (Len(roles) >= 2 /\ roles[2] = second =>
                   /\ statusHist[id] = <<"scheduled", "waiting", "in-progress">>
                   /\ session.status = "in-progress"
                   /\ session.startedAt = session.participants[2].joinedAt)

\* C9 (as amended): on a scheduled session a join with role recruiter and then
\* a join with role candidate move the status scheduled -> waiting ->
\* in-progress, each once; further joins change neither the status nor the
\* start time recorded at the candidate's join.
C9_RecruiterThenCandidate == StatusWalk("recruiter", "candidate")

\* C9 witness: a third join, by a recruiter, after the clock moved on
C9_ThirdJoinDone ==
    \E id \in DOMAIN liveInterviewSessions :
        LET session == liveInterviewSessions[id] IN
        /\ ~Ended(id)
        /\ RolesOf(session.participants) = <<"recruiter", "candidate", "recruiter">>
        /\ session.participants[3].joinedAt > session.participants[2].joinedAt
        /\ session.status = "in-progress"

\* C9 (as stated): the same walk for a join with role interviewer followed by
\* a join with role candidate
C9_InterviewerThenCandidate == StatusWalk("interviewer", "candidate")

\* C10 (as stated): once a session has status completed no step changes its
\* status, participants, timestamps, feedback, snapshots or logs
C10_CompletedIsFrozen ==
    [][\A id \in DOMAIN liveInterviewSessions :
          liveInterviewSessions[id].status = "completed" =>
              liveInterviewSessions'[id] = liveInterviewSessions[id]]_vars

\* the keys of a room's participant map; no room, no participants
ParticipantsOf(sessionId) ==
    IF sessionId \in DOMAIN liveInterviewRooms
    THEN liveInterviewRooms[sessionId].participants ELSE EmptyMap

\* C1: as long as no teardown timer has fired for a room, its participant map
\* holds exactly the endpoints that joined it and have not since left it or
\* disconnected; a join or leave on one room changes no other room's map.
C1_ParticipantsAreJoinsMinusLeaves ==
    /\ [](\A r \in LiveIds \ tornDown : DOMAIN ParticipantsOf(r) = joined[r])
    /\ [][last'.op \in {"join-live-interview", "leave-live-interview"} =>
            \A b \in LiveIds \ {last'.room} :
                ParticipantsOf(b)' = ParticipantsOf(b)]_vars

\* C1 witness: a participant of one room disconnected while another room,
\* never torn down, keeps its participants
C1_DisconnectWhileOthersStay ==
    /\ last.op = "disconnect"
    /\ Len(sent) > 0
    /\ tornDown = {}
    /\ \E r \in LiveIds : /\ DOMAIN ParticipantsOf(r) # {}
                          /\ sent[1].payload.socketId \notin DOMAIN ParticipantsOf(r)
    /\ \E r \in LiveIds : r \in DOMAIN liveInterviewRooms /\ DOMAIN ParticipantsOf(r) = {}

SignalingEvents ==
    {"webrtc-offer-multi", "webrtc-answer-multi", "webrtc-ice-candidate-multi",
     "webrtc-offer", "webrtc-answer", "webrtc-ice-candidate"}

\* C5 (as stated): a signaling message sent by S with target T is delivered,
\* tagged from = S, to the endpoint whose id is T and to nobody else, and to
\* nobody at all when no connected endpoint has id T.
C5_RelayReachesOnlyTarget ==
    last.op \in SignalingEvents =>
        /\ Len(sent) = 1
        /\ sent[1].event = last.op
        /\ sent[1].payload.from = last.by
        /\ sent[1].to = {e \in Endpoints : e = last.target /\ conn[e] = "connected"}

JoinAnswered == last.op = "join-live-interview"

\* the room-state snapshot of the join handled last
Snapshot == sent[2].payload

\* C6: when a room took live-code-updates since it was created, the room-state
\* snapshot sent to a joiner carries the text and language of the last one.
C6_SnapshotHasLastUpdate ==
    (JoinAnswered /\ lastUpdate[last.room].seen) =>
        /\ sent[2].event = "room-state"
        /\ sent[2].to = {last.by}
        /\ Snapshot.codeState.code = lastUpdate[last.room].code
        /\ Snapshot.codeState.language = lastUpdate[last.room].language

\* C6 witness: a join answered after updates that changed text and language
C6_JoinAfterUpdates ==
    /\ JoinAnswered
    /\ lastUpdate[last.room].seen
    /\ lastUpdate[last.room].language = "python"
    /\ lastUpdate[last.room].code = "b"
    /\ last.by \notin DOMAIN liveInterviewRooms[last.room].codeState.cursorPositions

\* the whiteboard strokes a room-state payload carries
SnapshotStrokes(payload) ==
    IF "whiteboard" \in DOMAIN payload THEN payload.whiteboard ELSE <<>>

\* C7 (as stated): the room-state snapshot of a join contains the strokes
\* drawn in the room and not cleared since, in the order drawn.
C7_SnapshotHasWhiteboard ==
    JoinAnswered =>
        SnapshotStrokes(Snapshot) = liveInterviewRooms[last.room].whiteboard

\* C8 (as stated): when Q connects with a code registered by P, who is still
\* connected, exactly one secondary-camera-connected goes out, to P alone, and
\* the mapping records Q as the secondary.
C8_OnlyPrimaryNotified ==
    (/\ last.op = "connect-secondary-camera"
     /\ last.code \in DOMAIN secondaryCameraMappings
     /\ conn[secondaryCameraMappings[last.code].mainSocketId] = "connected") =>
        /\ Len(sent) = 1
        /\ sent[1].event = "secondary-camera-connected"
        /\ sent[1].to = {secondaryCameraMappings[last.code].mainSocketId}
        /\ secondaryCameraMappings[last.code].phoneSocketId = last.by

\* the emits of one event about one socket that reach one endpoint
Notified(emits, event, socket, endpoint) ==
    {i \in 1..Len(emits) : /\ emits[i].event = event
                           /\ emits[i].payload.socketId = socket
                           /\ endpoint \in emits[i].to}

\* the live-session-update emits about one room that reach one endpoint
DashboardNotified(emits, sessionId, endpoint) ==
    {i \in 1..Len(emits) : /\ emits[i].event = "live-session-update"
                           /\ emits[i].payload.sessionId = sessionId
                           /\ endpoint \in emits[i].to}

\* C11 (as stated): a join, a leave-live-interview or a disconnect that puts an
\* endpoint into or takes it out of a room's participants sends, for each such
\* room, one participant-joined/left to every other participant of the room
\* and one live-session-update to every subscriber of the dashboard group.
C11_EveryChangeNotifiesRoomAndDashboard ==
    [][last'.op \in {"join-live-interview", "leave-live-interview", "disconnect"} =>
         LET changed == {r \in LiveIds :
                            DOMAIN ParticipantsOf(r) # DOMAIN ParticipantsOf(r)'}
             event == IF last'.op = "join-live-interview"
                      THEN "participant-joined" ELSE "participant-left"
             sharedWith(p) == {r \in changed : p \in DOMAIN ParticipantsOf(r)'}
         IN /\ \A p \in Endpoints \ {last'.by} :
                  sharedWith(p) # {} =>
                     Cardinality(Notified(sent', event, last'.by, p))
                         = Cardinality(sharedWith(p))
            /\ \A r \in changed, d \in Members(Dashboard)' :
                  Cardinality(DashboardNotified(sent', r, d)) = 1]_vars

\* C12 (as stated): an endpoint that has disconnected has no entry in any
\* room's participant map or screen-share map and is not in the dashboard group.
C12_DisconnectedLeavesNoEntry ==
    \A e \in Endpoints : conn[e] = "gone" =>
        /\ e \notin proctorDashboardSockets
        /\ e \notin Members(Dashboard)
        /\ \A r \in DOMAIN liveInterviewRooms :
              /\ e \notin DOMAIN liveInterviewRooms[r].participants
              /\ e \notin DOMAIN liveInterviewRooms[r].screenShares


\* the events the handlers emit to a live room
RoomEvents ==
    {"participant-joined", "participant-left", "live-code-update",
     "whiteboard-draw", "whiteboard-cleared", "screen-share-started",
     "screen-share-stopped", "interview-ended"}

\* C13 (as stated): whatever a handler emits to the room a message names
\* reaches only endpoints that are participants of that room after the
\* handler; what a disconnect emits for a room reaches only participants of
\* one room.
C13_RoomBroadcastStaysInRoom ==
    \A i \in 1..Len(sent) :
        sent[i].event \in RoomEvents =>
            IF last.op = "disconnect"
            THEN \E r \in LiveIds : sent[i].to \subseteq DOMAIN ParticipantsOf(r)
            ELSE sent[i].to \subseteq DOMAIN ParticipantsOf(last.room)


ReadPaths ==
    {"GET /:interviewId", "GET /:interviewId/score", "GET /dashboard/:interviewId"}

\* an interview that was registered as a session or has a recorded event
Known(id) == id \in DOMAIN activeSessions \/ id \in DOMAIN proctoringEvents

\* C14 (as stated): the event log, the score and the dashboard detail answer
\* 404 for an interview that was never registered or recorded, and 200 only
\* for a known one.
C14_UnknownReadsAnswer404 ==
    last.op \in ReadPaths =>
        /\ (~Known(last.id) => res.status = 404)
        /\ (res.status = 200 => Known(last.id))


\* the request handled last lacks a field the claim calls required
LacksRequiredField(request) ==
    CASE request.op = "POST /event" ->
            Undefined \in {request.id, request.eventType, request.severity}
      [] request.op = "POST /session" -> request.id = Undefined
      [] request.op \in {"POST /verify-identity", "POST /verify-identity (await)"} ->
            Undefined \in {request.id, request.userId, request.image}
      [] OTHER -> FALSE

\* C15 (as stated): a POST /event, POST /verify-identity or POST /session that
\* lacks a required field is answered with an error status and changes no
\* event log, session or verification record.
C15_IncompleteRequestRejected ==
    [][LacksRequiredField(last') =>
         /\ res'.status >= 400
         /\ UNCHANGED <<proctoringEvents, activeSessions,
                        identityVerifications>>]_vars

\* the log a store of event logs holds for one interview
LogOf(logs, id) == IF id \in DOMAIN logs THEN logs[id] ELSE <<>>

\* the synthetic event of a failed verification
IdentityMismatch == [eventType |-> "identity_mismatch", severity |-> "critical"]

\* C16 (as stated): when the verifier's answer arrives, not verified appends
\* exactly one critical identity_mismatch to the interview's log, verified
\* appends nothing, and an unreachable verifier or an answer without a
\* verification result is answered 503 with log and records unchanged.
C16_VerifierOutcomes ==
    [][last'.op = "POST /verify-identity (resume)" =>
         LET id == last'.id
             outcome == last'.outcome
             before == LogOf(proctoringEvents, id)
             after == LogOf(proctoringEvents', id)
         IN /\ (outcome = "not_verified" =>
                   after = Append(before, IdentityMismatch))
            /\ (outcome = "verified" => after = before)
            /\ (outcome \in {"throw", "no_verdict"} =>
                   /\ res'.status = 503
                   /\ UNCHANGED <<proctoringEvents, identityVerifications>>)]_vars


\* s is an initial segment of t
IsPrefix(s, t) == Len(s) <= Len(t) /\ SubSeq(t, 1, Len(s)) = s

\* C18: every step leaves each interview's event log as it was or extends it
\* at its end (session registration and session end included), and
\* GET /:interviewId answers the log as it stands, oldest event first.
C18_LogIsAppendOnly ==
    [][/\ \A id \in PKeys :
             IsPrefix(LogOf(proctoringEvents, id), LogOf(proctoringEvents', id))
       /\ (last'.op = "GET /:interviewId" =>
             /\ res'.status = 200
             /\ res'.body = LogOf(proctoringEvents', last'.id))]_vars

\* C18 witness: the log of a registered and ended interview, a recorded event
\* followed by a verification mismatch, is listed
C18_TwoEventsListed ==
    /\ last.op = "GET /:interviewId"
    /\ last.id = "p1"
    /\ "p1" \in DOMAIN activeSessions
    /\ activeSessions["p1"].status = "completed"
    /\ res.body = << [eventType |-> "tab_switch", severity |-> "low"],
                     IdentityMismatch >>


\* C17: connect-secondary-camera and secondary-snapshot with a code the
\* pairing registry does not hold send nothing and change neither the
\* registry nor the dashboard set (nor any socket.io room).
C17_UnknownCodeIsNoOp ==
    [][(/\ last'.op \in {"connect-secondary-camera", "secondary-snapshot"}
        /\ last'.code \notin DOMAIN secondaryCameraMappings) =>
          /\ sent' = <<>>
          /\ UNCHANGED <<secondaryCameraMappings, proctorDashboardSockets,
                         sioRooms>>]_vars

\* C17 witness: a dashboard subscriber sent a snapshot with an unknown code
\* while another code is registered and paired
C17_UnknownSnapshotFromSubscriber ==
    /\ last.op = "secondary-snapshot"
    /\ last.code \notin DOMAIN secondaryCameraMappings
    /\ last.by \in proctorDashboardSockets
    /\ \E c \in DOMAIN secondaryCameraMappings :
          secondaryCameraMappings[c].phoneSocketId # Undefined

\* the events the handlers emit to the dashboard group
DashboardEvents == {"live-session-update", "session-update", "proctoring-alert"}

\* an emit addressed to 'proctor-dashboard'
ToDashboard(emit) ==
    /\ emit.event \in DashboardEvents
    /\ emit.event = "proctoring-alert" => "interviewId" \in DOMAIN emit.payload

\* C19 (as stated): a dashboard subscriber that sends a secondary-snapshot
\* with a registered code is out of the dashboard group afterwards, and
\* dashboard notifications reach only endpoints that are in the group.
C19_SnapshotSenderLeavesDashboard ==
    /\ [][(/\ last'.op = "secondary-snapshot"
           /\ last'.code \in DOMAIN secondaryCameraMappings) =>
             /\ last'.by \notin proctorDashboardSockets'
             /\ last'.by \notin Members(Dashboard)']_vars
    /\ [](\A i \in 1..Len(sent) :
             ToDashboard(sent[i]) => sent[i].to \subseteq proctorDashboardSockets)


\* C20 (as stated): a join of a room cancels the teardown pending for it: once
\* a join is handled no timer of an earlier end-live-interview is left for
\* the room, and the step after the join does not delete the room.
C20_JoinCancelsTeardown ==
    /\ [](JoinAnswered => pendingTeardowns[last.room] = 0)
    /\ [][JoinAnswered => last.room \in DOMAIN liveInterviewRooms']_vars


\* C21: whenever a teardown is pending for a room, a state follows in which
\* the room is absent from the registry, participants or not; a room leaves
\* the registry by the timer only, and an end-live-interview itself leaves
\* the room and its state as they are.
C21_EndLeadsToTeardown ==
    /\ \A r \in LiveIds :
          (pendingTeardowns[r] > 0) ~> (r \notin DOMAIN liveInterviewRooms)
    /\ [][/\ \A r \in DOMAIN liveInterviewRooms :
                r \notin DOMAIN liveInterviewRooms' => last'.op = "teardown"
          /\ last'.op = "end-live-interview" => UNCHANGED liveInterviewRooms]_vars

\* C21 witness: the last pending timer deleted a room whose participant had
\* not left
C21_OccupiedRoomTornDown ==
    /\ last.op = "teardown"
    /\ joined[last.room] # {}
    /\ last.room \notin DOMAIN liveInterviewRooms
    /\ pendingTeardowns[last.room] = 0


\* the messages that update a room
UpdateMessages ==
    {"live-code-update", "cursor-position", "whiteboard-draw", "whiteboard-clear",
     "start-screen-share", "stop-screen-share", "camera-status-update"}

\* C22 (as stated): an update message for a room id the registry does not hold
\* creates no room, changes no room and is delivered to no endpoint.
C22_UpdateOfAbsentRoomIgnored ==
    [][(/\ last'.op \in UpdateMessages
        /\ last'.room \notin DOMAIN liveInterviewRooms) =>
          /\ UNCHANGED liveInterviewRooms
          /\ \A i \in 1..Len(sent') : sent'[i].to = {}]_vars

\* C27 (as stated): a cursor-position from S for an existing room leaves the
\* room's code text and language as they are and stores the position sent as
\* S's cursor entry, which the room-state snapshot carries.
C27_CursorPositionStored ==
    [][(/\ last'.op = "cursor-position"
        /\ last'.room \in DOMAIN liveInterviewRooms) =>
          LET before == liveInterviewRooms[last'.room].codeState
              after == liveInterviewRooms'[last'.room].codeState
          IN /\ after.code = before.code
             /\ after.language = before.language
             /\ last'.by \in DOMAIN after.cursorPositions
             /\ after.cursorPositions[last'.by].cursorPosition
                   = last'.cursorPosition]_vars


\* C23: a step that handles POST /join (the clock stands still) answers 200
\* exactly when the session exists and the code
\* sent is its access code, and then appends one participant; otherwise it
\* answers 404 (unknown session) or 403 (wrong code) and changes no session.
C23_JoinNeedsAccessCode ==
    [][(last'.op = "POST /join" /\ now' = now) =>
         LET id == last'.id
             known == id \in DOMAIN liveInterviewSessions
         IN IF known /\ liveInterviewSessions[id].accessCode = last'.code
            THEN /\ res'.status = 200
                 /\ Len(liveInterviewSessions'[id].participants)
                       = Len(liveInterviewSessions[id].participants) + 1
            ELSE /\ res'.status = IF known THEN 403 ELSE 404
                 /\ UNCHANGED liveInterviewSessions]_vars

\* C23 witness: a join with a wrong code refused on a running interview
C23_WrongCodeRefused ==
    /\ last.op = "POST /join"
    /\ res.status = 403
    /\ liveInterviewSessions[last.id].status = "in-progress"
    /\ last.code \in AccessCodes


ListAnswered == last.op = "GET /dashboard/sessions"

\* the last n events of a log, n at most 5, by position
LastFive(events) ==
    LET n == IF Len(events) < 5 THEN Len(events) ELSE 5
    IN [j \in 1..n |-> events[Len(events) - n + j]]

\* C24: GET /dashboard/sessions lists exactly the registered sessions with
\* status active; for each the integrityScore and totalEvents are what
\* GET /:interviewId/score answers in the same state, and recentEvents are the
\* last min(5, n) events of the log in log order.
C24_ListingAgreesWithScore ==
    ListAnswered =>
        /\ DOMAIN res.body = {id \in DOMAIN activeSessions :
                                 activeSessions[id].status = "active"}
        /\ \A id \in DOMAIN res.body :
              /\ res.body[id].integrityScore = ScoreResponse(id).score
              /\ res.body[id].totalEvents = ScoreResponse(id).totalEvents
              /\ res.body[id].recentEvents = LastFive(EventsOf(id))

\* C24 witness: a listing with one session whose log has more than five
\* events of both severities while another session has ended
C24_LongLogListed ==
    /\ ListAnswered
    /\ DOMAIN res.body = {"p1"}
    /\ "p2" \in DOMAIN activeSessions
    /\ Len(EventsOf("p1")) > 5
    /\ EventsOf("p1")[1].severity = "critical"
    /\ res.body["p1"].recentEvents[1].severity = "low"
    /\ res.body["p1"].integrityScore < 100


Completed(id) ==
    id \in DOMAIN activeSessions /\ activeSessions[id].status = "completed"

\* 100 less 2 per low and 20 per critical event, never below 0
ExpectedScore(events) ==
    LET n(sev) == Cardinality({i \in 1..Len(events) : events[i].severity = sev})
        raw == 100 - 2 * n("low") - 5 * n("medium") - 10 * n("high")
                   - 20 * n("critical")
    IN IF raw < 0 THEN 0 ELSE raw

\* C25: ending a registered session sets its status to completed and its end
\* timestamp and leaves every event log as it was; an event recorded for a
\* completed session is answered 200 and appended to its log, and every score
\* answer counts the whole log of that state, events after the end included.
C25_EndedSessionStillRecords ==
    [][LET id == last'.id IN
       /\ (last'.op = "DELETE /session" /\ id \in DOMAIN activeSessions) =>
             /\ activeSessions'[id].status = "completed"
             /\ activeSessions'[id].endTime # Null
             /\ UNCHANGED proctoringEvents
       /\ (last'.op = "POST /event" /\ Completed(id)) =>
             /\ res'.status = 200
             /\ LogOf(proctoringEvents', id)
                   = Append(EventsOf(id), [eventType |-> last'.eventType,
                                           severity |-> last'.severity])
             /\ activeSessions'[id].status = "completed"
       /\ last'.op = "GET /:interviewId/score" =>
             /\ res'.body.totalEvents = Len(EventsOf(id))
             /\ res'.body.score = ExpectedScore(EventsOf(id))]_vars

\* C25 witness: the last request recorded an event for a session that was
\* already completed, and the log holds it after the earlier events
C25_EventAfterEnd ==
    /\ last.op = "POST /event"
    /\ last.id = "p1"
    /\ Completed("p1")
    /\ res.status = 200
    /\ Len(EventsOf("p1")) = 3
    /\ EventsOf("p1")[3].severity = last.severity

RecordsOf(id) ==
    IF id \in DOMAIN identityVerifications THEN identityVerifications[id]
    ELSE <<>>

\* C26: an event recorded while verifications are suspended is appended to
\* the log as it stands and leaves the suspended requests and the records
\* alone; a verification that resumes with an answer appends its own record
\* (its user, its verdict) after the records already there, and with not
\* verified its identity_mismatch after every event already in the log.
C26_EventsAndVerificationsInterleave ==
    [][LET id == last'.id IN
       /\ last'.op = "POST /event" =>
             /\ LogOf(proctoringEvents', id)
                   = Append(EventsOf(id), [eventType |-> last'.eventType,
                                           severity |-> last'.severity])
             /\ UNCHANGED <<verifyInFlight, identityVerifications>>
       /\ (last'.op = "POST /verify-identity (resume)"
             /\ last'.outcome # "throw") =>
             \E k \in 1..Len(verifyInFlight) :
                /\ verifyInFlight[k].interviewId = id
                /\ verifyInFlight' = RemoveAt(verifyInFlight, k)
                /\ LogOf(identityVerifications', id)
                      = Append(RecordsOf(id),
                               [userId |-> verifyInFlight[k].userId,
                                verified |-> IF last'.outcome = "verified"
                                             THEN "true" ELSE "false"])
                /\ LogOf(proctoringEvents', id)
                      = IF last'.outcome = "verified" THEN EventsOf(id)
                        ELSE Append(EventsOf(id), IdentityMismatch)]_vars

\* C26 witness: a verification of u2 resumed with not verified while the one
\* of u1 is still suspended; its mismatch stands after the recorded events
C26_MismatchAfterWaitingEvents ==
    /\ last.op = "POST /verify-identity (resume)"
    /\ Len(verifyInFlight) = 1
    /\ verifyInFlight[1].userId = "u1"
    /\ RecordsOf("p1") = <<[userId |-> "u1", verified |-> "false"],
                           [userId |-> "u2", verified |-> "false"]>>
    /\ Len(EventsOf("p1")) = 4
    /\ EventsOf("p1")[1] = IdentityMismatch
    /\ EventsOf("p1")[2].eventType = "tab_switch"
    /\ EventsOf("p1")[3].eventType = "tab_switch"
    /\ EventsOf("p1")[4] = IdentityMismatch


\* C28 (as stated): for every room the sockets subscribed to live-<roomId>
\* are exactly the keys of the room's participant map, and nobody is
\* subscribed when the room is not in the registry.
C28_SubscribersAreParticipants ==
    \A r \in LiveIds : Members(LiveRoom(r)) = DOMAIN ParticipantsOf(r)

\* C29 (as stated): the event counter of every registered session equals the
\* length of that session's event log, which is the totalEvents of the score
\* query.
C29_CounterEqualsLogLength ==
    \A id \in DOMAIN activeSessions :
        activeSessions[id].eventCount = ScoreResponse(id).totalEvents

\* C30 (as stated): a session that is completed is still completed after
\* every step, so it never comes back into the listing of active sessions.
C30_CompletedStaysCompleted ==
    [][\A id \in DOMAIN activeSessions :
          activeSessions[id].status = "completed" =>
              activeSessions'[id].status = "completed"]_vars

====
